---- MODULE Spec2Model ----
(***************************************************************************)
(* Model of the two probabilistic summaries of goit-algo2-hw-06:           *)
(*   src/task-01.py  BloomFilter, check_password_uniqueness                *)
(*   src/task-02.py  HyperLogLog                                           *)
(* The two files are separate programs; a behaviour runs one of them.      *)
(*                                                                         *)
(* Python values are records tagged by type.  A str is the sequence of its *)
(* code points.  A 32-bit unsigned word is the pair <<hi, lo>> of its      *)
(* 16-bit halves, so that no intermediate exceeds a 32-bit signed integer. *)
(* Python floats are modelled as exact rationals / naturals in base 1024.  *)
(***************************************************************************)
EXTENDS Integers, Sequences, FiniteSets, TLC

VARIABLES
    prog,     \* which of the two programs runs
    hashfn,   \* the hash function of this run (see mmh3_hash)
    bloom,    \* the BloomFilter instance of task-01, or None
    hll,      \* the HyperLogLog instance of task-02, or None
    added,    \* history: the items passed to add that add did not ignore
    ret       \* the last call: its name, argument, result and exception

vars == <<prog, hashfn, bloom, hll, added, ret>>

(* ------------------------------ bounds -------------------------------- *)
MaxSize == 3      \* largest size argument tried for BloomFilter
MaxK    == 2      \* largest num_hashes argument tried for BloomFilter
MaxP    == 3      \* largest precision argument tried for HyperLogLog
MaxLen  == 2      \* longest new_passwords list tried
MaxMix  == 2      \* range of the two parameters selecting the hash function

(* --------------------------- Python values ---------------------------- *)
None     == [t |-> "none"]
PyStr(s) == [t |-> "str", s |-> s]
PyInt(n) == [t |-> "int", n |-> n]
PyBool(b) == [t |-> "bool", b |-> b]
PyList(l) == [t |-> "list", l |-> l]
PyDict(d) == [t |-> "dict", d |-> d]     \* d: the <<key, value>> entries in insertion order

IsStr(v) == v.t = "str"
IsInt(v) == v.t = "int"

\* truth value of a Python object: None, "" and 0 are falsy
Truthy(v) ==
    CASE v.t = "none" -> FALSE
      [] v.t = "str"  -> Len(v.s) > 0
      [] v.t = "int"  -> v.n # 0

\* the guard `not item or not isinstance(item, str)`
InvalidItem(v) == (~Truthy(v)) \/ (~IsStr(v))

\* code points of the literals used below
STR_ab   == <<97, 98>>
STR_None == <<78, 111, 110, 101>>

RECURSIVE Digits(_)
Digits(n) == IF n < 10 THEN <<48 + n>> ELSE Digits(n \div 10) \o <<48 + (n % 10)>>

\* str(x)
Str(v) ==
    CASE v.t = "str"  -> v.s
      [] v.t = "none" -> STR_None
      [] v.t = "int"  -> IF v.n < 0 THEN <<45>> \o Digits(0 - v.n) ELSE Digits(v.n)

\* s.encode('utf-8'), one character
Utf8Char(c) ==
    IF c < 128 THEN <<c>>
    ELSE IF c < 2048 THEN <<192 + (c \div 64), 128 + (c % 64)>>
    ELSE <<224 + (c \div 4096), 128 + ((c \div 64) % 64), 128 + (c % 64)>>

RECURSIVE Encode(_)
Encode(s) == IF s = <<>> THEN <<>> ELSE Utf8Char(Head(s)) \o Encode(Tail(s))

\* the items handed to add / contains / check_password_uniqueness
Items == {PyStr(STR_ab), PyStr(STR_None), PyStr(<<>>), None, PyInt(7)}

(* ---------------------------- 32-bit words ---------------------------- *)
RECURSIVE Pow2(_)
Pow2(n) == IF n = 0 THEN 1 ELSE 2 * Pow2(n - 1)

W16 == Pow2(16)

Word(n) == <<n \div W16, n % W16>>          \* for 0 <= n < 2^31

\* x % n for a word x and a positive int n
WordMod(x, n) == (((x[1] % n) * (W16 % n)) + (x[2] % n)) % n

RECURSIVE BitAnd(_, _)
BitAnd(a, b) ==
    IF a = 0 \/ b = 0 THEN 0
    ELSE 2 * BitAnd(a \div 2, b \div 2) + (IF a % 2 = 1 /\ b % 2 = 1 THEN 1 ELSE 0)

\* x & y
WordAnd(x, y) == <<BitAnd(x[1], y[1]), BitAnd(x[2], y[2])>>

\* x >> k for 0 <= k <= 16
WordShr(x, k) ==
    <<x[1] \div Pow2(k), ((x[1] % Pow2(k)) * Pow2(16 - k)) + (x[2] \div Pow2(k))>>

RECURSIVE IntBitLength(_)
IntBitLength(n) == IF n = 0 THEN 0 ELSE 1 + IntBitLength(n \div 2)

\* w.bit_length()
BitLength(w) == IF w[1] > 0 THEN 16 + IntBitLength(w[1]) ELSE IntBitLength(w[2])

(* ------------------------------- mmh3 --------------------------------- *)
\* mmh3 is an external library.  It is modelled as one deterministic
\* function per run, selected in Init by hashfn = <<a, b>> out of a family
\* that maps (bytes, seed) onto representative 32-bit words: the extremes,
\* words whose high part is zero, and words with the top bit set.
HashVals == << <<0, 0>>, <<65535, 65535>>, <<0, 1>>, <<0, 6>>, <<32768, 5>>, <<1, 2>> >>

RECURSIVE ByteSum(_)
ByteSum(data) == IF data = <<>> THEN 0 ELSE Head(data) + ByteSum(Tail(data))

\* mmh3.hash(data, seed, signed=False); seed is a word
mmh3_hash(data, seed) ==
    HashVals[((hashfn[1] * ByteSum(data) + hashfn[2] * (seed[1] + seed[2])) % Len(HashVals)) + 1]

SEED_HLL == <<57005, 48879>>            \* 0xDEADBEEF

(* ------------------------- task-01: BloomFilter ----------------------- *)
NoRaise == "none"

\* mutant of BloomFilter_init: the test is `>= 0` instead of `> 0`
BloomFilter_init_ge(size, num_hashes) ==
    IF ~(IsInt(size) /\ size.n >= 0 /\ IsInt(num_hashes) /\ num_hashes.n >= 0)
    THEN [obj |-> None, raised |-> "ValueError"]
    ELSE [obj |-> [t |-> "BloomFilter",
                   size |-> size.n,
                   num_hashes |-> num_hashes.n,
                   bit_array |-> [k \in 1..size.n |-> 0]],
          raised |-> NoRaise]

\* BloomFilter.__init__: either the new instance or the exception raised
BloomFilter_init(size, num_hashes) ==
    IF ~(IsInt(size) /\ size.n > 0 /\ IsInt(num_hashes) /\ num_hashes.n > 0)
    THEN [obj |-> None, raised |-> "ValueError"]
    ELSE [obj |-> [t |-> "BloomFilter",
                   size |-> size.n,
                   num_hashes |-> num_hashes.n,
                   bit_array |-> [k \in 1..size.n |-> 0]],
          raised |-> NoRaise]

\* index = mmh3.hash(data, i, signed=False) % self.size
BloomIndex(bf, data, i) == WordMod(mmh3_hash(data, Word(i)), bf.size)

\* mutant of AddLoop: the loop runs over range(self.num_hashes - 1)
RECURSIVE AddLoop_short(_, _, _, _)
AddLoop_short(bf, bits, data, i) ==
    IF i >= bf.num_hashes - 1 THEN bits
    ELSE AddLoop_short(bf, [bits EXCEPT ![BloomIndex(bf, data, i) + 1] = 1], data, i + 1)

\* mutant of AddLoop: the seeds are 1 .. num_hashes instead of 0 .. num_hashes - 1
RECURSIVE AddLoop_seed1(_, _, _, _)
AddLoop_seed1(bf, bits, data, i) ==
    IF i >= bf.num_hashes THEN bits
    ELSE AddLoop_seed1(bf, [bits EXCEPT ![BloomIndex(bf, data, i + 1) + 1] = 1], data, i + 1)

\* the loop `for i in range(self.num_hashes)` of add, from iteration i on;
\* Python list position k is position k + 1 here
RECURSIVE AddLoop(_, _, _, _)
AddLoop(bf, bits, data, i) ==
    IF i >= bf.num_hashes THEN bits
    ELSE AddLoop(bf, [bits EXCEPT ![BloomIndex(bf, data, i) + 1] = 1], data, i + 1)

\* BloomFilter.add: the instance after the call
BloomFilter_add(bf, item) ==
    IF InvalidItem(item) THEN bf
    ELSE [bf EXCEPT !.bit_array = AddLoop(bf, bf.bit_array, Encode(item.s), 0)]

\* mutant of ContainsLoop: True is returned as soon as one bit is found set
RECURSIVE ContainsLoop_any(_, _, _)
ContainsLoop_any(bf, data, i) ==
    IF i >= bf.num_hashes THEN [val |-> PyBool(FALSE), raised |-> NoRaise]
    ELSE LET index == BloomIndex(bf, data, i) IN
         IF index >= Len(bf.bit_array) THEN [val |-> None, raised |-> "IndexError"]
         ELSE IF bf.bit_array[index + 1] = 1 THEN [val |-> PyBool(TRUE), raised |-> NoRaise]
         ELSE ContainsLoop_any(bf, data, i + 1)

\* the loop of contains, from iteration i on
RECURSIVE ContainsLoop(_, _, _)
ContainsLoop(bf, data, i) ==
    IF i >= bf.num_hashes THEN [val |-> PyBool(TRUE), raised |-> NoRaise]
    ELSE LET index == BloomIndex(bf, data, i) IN
         IF index >= Len(bf.bit_array) THEN [val |-> None, raised |-> "IndexError"]
         ELSE IF bf.bit_array[index + 1] = 0 THEN [val |-> PyBool(FALSE), raised |-> NoRaise]
         ELSE ContainsLoop(bf, data, i + 1)

\* mutant of BloomFilter_contains: the guard lacks `not item`
BloomFilter_contains_noempty(bf, item) ==
    IF ~IsStr(item) THEN [val |-> PyBool(FALSE), raised |-> NoRaise]
    ELSE ContainsLoop(bf, Encode(item.s), 0)

\* BloomFilter.contains: return value and exception
BloomFilter_contains(bf, item) ==
    IF InvalidItem(item) THEN [val |-> PyBool(FALSE), raised |-> NoRaise]
    ELSE ContainsLoop(bf, Encode(item.s), 0)

\* the three status texts of check_password_uniqueness
STATUS_INVALID == "invalid or empty"
STATUS_USED    == "already used"
STATUS_UNIQUE  == "unique"

\* operations on the entries of a dict
DictHas(d, k) == \E n \in 1..Len(d) : d[n][1] = k
DictGet(d, k) == d[CHOOSE n \in 1..Len(d) : d[n][1] = k][2]

\* d[k] = v
DictSet(d, k, v) ==
    IF DictHas(d, k)
    THEN [n \in 1..Len(d) |-> IF d[n][1] = k THEN <<k, v>> ELSE d[n]]
    ELSE Append(d, <<k, v>>)

\* the loop `for password in new_passwords`, from position n on
RECURSIVE UniquenessLoop(_, _, _, _)
UniquenessLoop(bf, new_passwords, n, results) ==
    IF n > Len(new_passwords) THEN [val |-> PyDict(results), raised |-> NoRaise]
    ELSE LET password == new_passwords[n] IN
         IF InvalidItem(password)
         THEN UniquenessLoop(bf, new_passwords, n + 1,
                             DictSet(results, Str(password), STATUS_INVALID))
         ELSE LET c == BloomFilter_contains(bf, password) IN
              IF c.raised # NoRaise THEN [val |-> None, raised |-> c.raised]
              ELSE UniquenessLoop(bf, new_passwords, n + 1,
                       DictSet(results, password.s,
                               IF c.val.b THEN STATUS_USED ELSE STATUS_UNIQUE))

check_password_uniqueness(bf, new_passwords) ==
    UniquenessLoop(bf, new_passwords, 1, <<>>)

(* ---------------------- exact arithmetic for floats ------------------- *)
\* a natural number as its base-1024 digits, least significant first,
\* without leading zero digits
BigBase == Pow2(10)

RECURSIVE Big(_)
Big(n) == IF n = 0 THEN <<>> ELSE <<n % BigBase>> \o Big(n \div BigBase)

RECURSIVE BigAddC(_, _, _)
BigAddC(a, b, carry) ==
    IF a = <<>> /\ b = <<>> THEN Big(carry)
    ELSE LET da == IF a = <<>> THEN 0 ELSE Head(a)
             db == IF b = <<>> THEN 0 ELSE Head(b)
             t  == da + db + carry
         IN <<t % BigBase>> \o BigAddC(IF a = <<>> THEN a ELSE Tail(a),
                                       IF b = <<>> THEN b ELSE Tail(b),
                                       t \div BigBase)

BigAdd(a, b) == BigAddC(a, b, 0)

\* a * c for an int 0 < c < 2^20
RECURSIVE BigMulC(_, _, _)
BigMulC(a, c, carry) ==
    IF a = <<>> THEN Big(carry)
    ELSE LET t == Head(a) * c + carry
         IN <<t % BigBase>> \o BigMulC(Tail(a), c, t \div BigBase)

BigMul(a, c) == IF c = 0 THEN <<>> ELSE BigMulC(a, c, 0)

RECURSIVE BigLeqFrom(_, _, _)
BigLeqFrom(a, b, n) ==
    IF n = 0 THEN TRUE
    ELSE IF a[n] # b[n] THEN a[n] < b[n]
    ELSE BigLeqFrom(a, b, n - 1)

\* a <= b
BigLeq(a, b) ==
    IF Len(a) # Len(b) THEN Len(a) < Len(b) ELSE BigLeqFrom(a, b, Len(a))

\* 2^e as a Big, for 0 <= e <= 40
BigPow2(e) == IF e <= 20 THEN Big(Pow2(e)) ELSE BigMul(Big(Pow2(20)), Pow2(e - 20))

(* ------------------------- task-02: HyperLogLog ----------------------- *)
\* register values are at most HashBits; Z is kept as Z * 2^HashBits
HashBits == 32

\* _get_alpha, as the rational <<numerator, denominator>>;
\* 0.7213 / (1 + 1.079 / m) = 7213 m / (10000 m + 10790)
get_alpha(m) ==
    IF m = 16 THEN <<673, 1000>>
    ELSE IF m = 32 THEN <<697, 1000>>
    ELSE IF m = 64 THEN <<709, 1000>>
    ELSE <<7213 * m, 10000 * m + 10790>>

\* HyperLogLog.__init__: `1 << p` raises for a non-int and for a negative p
HyperLogLog_init(p) ==
    IF ~IsInt(p) THEN [obj |-> None, raised |-> "TypeError"]
    ELSE IF p.n < 0 THEN [obj |-> None, raised |-> "ValueError"]
    ELSE LET m == Pow2(p.n) IN
         [obj |-> [t |-> "HyperLogLog",
                   p |-> p.n,
                   m |-> m,
                   registers |-> [k \in 1..m |-> 0],
                   alpha |-> get_alpha(m),
                   small_range_correction |-> <<5 * m, 2>>],
          raised |-> NoRaise]

\* _rho
rho(w) == IF w = <<0, 0>> THEN 32 ELSE 32 - BitLength(w) + 1

Max(a, b) == IF a >= b THEN a ELSE b

\* j = x & (self.m - 1), as an int
RegisterIndex(h, x) == LET j == WordAnd(x, Word(h.m - 1)) IN j[1] * W16 + j[2]

\* mutant of HyperLogLog_add: the register is overwritten, not maximised
HyperLogLog_add_nomax(h, item) ==
    LET x == mmh3_hash(Encode(Str(item)), SEED_HLL)
        j == RegisterIndex(h, x)
        w == WordShr(x, h.p)
    IN [h EXCEPT !.registers[j + 1] = rho(w)]

\* mutant of HyperLogLog_add: the register written is (j + 1) % m
HyperLogLog_add_offby1(h, item) ==
    LET x == mmh3_hash(Encode(Str(item)), SEED_HLL)
        j == (RegisterIndex(h, x) + 1) % h.m
        w == WordShr(x, h.p)
    IN [h EXCEPT !.registers[j + 1] = Max(h.registers[j + 1], rho(w))]

\* mutant of HyperLogLog_add: min is written where max is meant
HyperLogLog_add_min(h, item) ==
    LET x == mmh3_hash(Encode(Str(item)), SEED_HLL)
        j == RegisterIndex(h, x)
        w == WordShr(x, h.p)
        v == h.registers[j + 1]
    IN [h EXCEPT !.registers[j + 1] = IF v <= rho(w) THEN v ELSE rho(w)]

\* HyperLogLog.add: the instance after the call
HyperLogLog_add(h, item) ==
    LET x == mmh3_hash(Encode(Str(item)), SEED_HLL)
        j == RegisterIndex(h, x)
        w == WordShr(x, h.p)
    IN [h EXCEPT !.registers[j + 1] = Max(h.registers[j + 1], rho(w))]

\* Z = sum(2.0 ** -r for r in self.registers), scaled by 2^HashBits
RECURSIVE SumZ(_, _)
SumZ(registers, n) ==
    IF n = 0 THEN <<>>
    ELSE BigAdd(SumZ(registers, n - 1), BigPow2(HashBits - registers[n]))

\* self.registers.count(0)
RECURSIVE CountZero(_, _)
CountZero(registers, n) ==
    IF n = 0 THEN 0
    ELSE CountZero(registers, n - 1) + (IF registers[n] = 0 THEN 1 ELSE 0)

\* A float result is one of
\*   [f |-> "ratio", num, den]   the quotient num / den of two Bigs
\*   [f |-> "mlog", m, n, d]     m * math.log(n / d)
\* E = alpha * m * m / Z = (alpha[1] * m * m * 2^HashBits) / (alpha[2] * Zs)
RawNum(h)     == BigMul(BigMul(BigMul(BigPow2(HashBits), h.alpha[1]), h.m), h.m)
RawDen(h, Zs) == BigMul(Zs, h.alpha[2])

\* mutant of BelowSmallRange: the comparison is E > threshold
BelowSmallRange_flipped(h, Zs) ==
    ~BigLeq(BigMul(RawNum(h), h.small_range_correction[2]),
            BigMul(RawDen(h, Zs), h.small_range_correction[1]))

\* E <= self.small_range_correction, cross-multiplied
BelowSmallRange(h, Zs) ==
    BigLeq(BigMul(RawNum(h), h.small_range_correction[2]),
           BigMul(RawDen(h, Zs), h.small_range_correction[1]))

\* m * math.log(n / d): the division raises for d = 0, the logarithm for
\* a quotient that is not positive
MLog(m, n, d) ==
    IF d = 0 THEN [val |-> None, raised |-> "ZeroDivisionError"]
    ELSE IF n <= 0 THEN [val |-> None, raised |-> "ValueError"]
    ELSE [val |-> [f |-> "mlog", m |-> m, n |-> n, d |-> d], raised |-> NoRaise]

\* mutant of HyperLogLog_count: the test `if V > 0` is missing
HyperLogLog_count_noguard(h) ==
    LET Zs  == SumZ(h.registers, Len(h.registers))
        E   == [f |-> "ratio", num |-> RawNum(h), den |-> RawDen(h, Zs)]
        V   == CountZero(h.registers, Len(h.registers))
    IN IF Zs = <<>>
       THEN [val |-> None, raised |-> "ZeroDivisionError", branch |-> "none", V |-> V]
       ELSE IF BelowSmallRange(h, Zs)
            THEN LET r == MLog(h.m, h.m, V) IN
                 [val |-> r.val, raised |-> r.raised, branch |-> "linear", V |-> V]
            ELSE [val |-> E, raised |-> NoRaise, branch |-> "raw", V |-> V]

\* mutant of HyperLogLog_count: linear counting whenever V > 0, without
\* the test against small_range_correction
HyperLogLog_count_nothreshold(h) ==
    LET Zs  == SumZ(h.registers, Len(h.registers))
        E   == [f |-> "ratio", num |-> RawNum(h), den |-> RawDen(h, Zs)]
        V   == CountZero(h.registers, Len(h.registers))
    IN IF Zs = <<>>
       THEN [val |-> None, raised |-> "ZeroDivisionError", branch |-> "none", V |-> V]
       ELSE IF V > 0
            THEN LET r == MLog(h.m, h.m, V) IN
                 [val |-> r.val, raised |-> r.raised, branch |-> "linear", V |-> V]
            ELSE [val |-> E, raised |-> NoRaise, branch |-> "raw", V |-> V]

\* HyperLogLog.count: return value, exception, and the return statement taken
HyperLogLog_count(h) ==
    LET Zs  == SumZ(h.registers, Len(h.registers))
        E   == [f |-> "ratio", num |-> RawNum(h), den |-> RawDen(h, Zs)]
        V   == CountZero(h.registers, Len(h.registers))
        raw == [val |-> E, raised |-> NoRaise, branch |-> "raw", V |-> V]
    IN IF Zs = <<>>
       THEN [val |-> None, raised |-> "ZeroDivisionError", branch |-> "none", V |-> V]
       ELSE IF BelowSmallRange(h, Zs)
            THEN IF V > 0
                 THEN LET r == MLog(h.m, h.m, V) IN
                      [val |-> r.val, raised |-> r.raised, branch |-> "linear", V |-> V]
                 ELSE raw
            ELSE raw

\* x == 0 for a float result: a quotient is 0 iff its numerator is,
\* m * log(n / d) is 0 iff m = 0 or n = d
FloatIsZero(x) ==
    IF x.f = "ratio" THEN x.num = <<>> ELSE (x.m = 0 \/ x.n = x.d)

(* ------------------------------ the runs ------------------------------ *)
Ret(op, arg, r) == [op |-> op, arg |-> arg, val |-> r.val, raised |-> r.raised]

Returned(v) == [val |-> v, raised |-> NoRaise]

\* arguments tried for the constructors: ints from -1 up, and a non-int
SizeArgs == {PyInt(n) : n \in -1..MaxSize} \cup {None}
KArgs    == {PyInt(n) : n \in -1..MaxK} \cup {None}
PArgs    == {PyInt(n) : n \in -1..MaxP} \cup {None}

\* lists of at most MaxLen entries: a valid string, the string "None", and
\* the invalid entries None and ""
ListItems == {PyStr(STR_ab), PyStr(STR_None), None, PyStr(<<>>)}
ItemLists == UNION {[1..n -> ListItems] : n \in 0..MaxLen}

Init ==
    /\ prog \in {"task-01", "task-02"}
    /\ hashfn \in (0..MaxMix) \X (0..MaxMix)
    /\ bloom = None
    /\ hll = None
    /\ added = {}
    /\ ret = [op |-> "start", arg |-> None, val |-> None, raised |-> NoRaise]

\* bloom = BloomFilter(size, num_hashes)
NewBloomFilter ==
    /\ prog = "task-01"
    /\ bloom = None
    /\ \E size \in SizeArgs, num_hashes \in KArgs :
          LET r == BloomFilter_init(size, num_hashes) IN
          /\ bloom' = r.obj
          /\ ret' = [op |-> "BloomFilter", arg |-> PyList(<<size, num_hashes>>),
                     val |-> r.obj, raised |-> r.raised]
    /\ UNCHANGED <<prog, hashfn, hll, added>>

\* bloom.add(item)
BloomAdd ==
    /\ bloom # None
    /\ \E item \in Items :
          /\ bloom' = BloomFilter_add(bloom, item)
          /\ added' = IF InvalidItem(item) THEN added ELSE added \cup {item}
          /\ ret' = Ret("BloomFilter.add", item, Returned(None))
    /\ UNCHANGED <<prog, hashfn, hll>>

\* mutant of BloomContains: the query marks the bits it looked up
BloomContains_marking ==
    /\ bloom # None
    /\ \E item \in Items :
          /\ ret' = Ret("BloomFilter.contains", item, BloomFilter_contains(bloom, item))
          /\ bloom' = BloomFilter_add(bloom, item)
    /\ UNCHANGED <<prog, hashfn, hll, added>>

\* bloom.contains(item)
BloomContains ==
    /\ bloom # None
    /\ \E item \in Items :
          ret' = Ret("BloomFilter.contains", item, BloomFilter_contains(bloom, item))
    /\ UNCHANGED <<prog, hashfn, bloom, hll, added>>

\* check_password_uniqueness(bloom, new_passwords)
CheckPasswords ==
    /\ bloom # None
    /\ \E new_passwords \in ItemLists :
          ret' = Ret("check_password_uniqueness", PyList(new_passwords),
                     check_password_uniqueness(bloom, new_passwords))
    /\ UNCHANGED <<prog, hashfn, bloom, hll, added>>

\* hll = HyperLogLog(p)
NewHyperLogLog ==
    /\ prog = "task-02"
    /\ hll = None
    /\ \E p \in PArgs :
          LET r == HyperLogLog_init(p) IN
          /\ hll' = r.obj
          /\ ret' = [op |-> "HyperLogLog", arg |-> p, val |-> r.obj, raised |-> r.raised]
    /\ UNCHANGED <<prog, hashfn, bloom, added>>

\* hll.add(item)
HllAdd ==
    /\ hll # None
    /\ \E item \in Items :
          /\ hll' = HyperLogLog_add(hll, item)
          /\ added' = added \cup {item}
          /\ ret' = Ret("HyperLogLog.add", item, Returned(None))
    /\ UNCHANGED <<prog, hashfn, bloom>>

\* hll.count()
HllCount ==
    /\ hll # None
    /\ LET r == HyperLogLog_count(hll) IN
       ret' = [op |-> "HyperLogLog.count", arg |-> None, val |-> r.val,
               raised |-> r.raised, branch |-> r.branch, V |-> r.V]
    /\ UNCHANGED <<prog, hashfn, bloom, hll, added>>

\* count() as a function of the registers.  An estimator that has seen any
\* number of items holds, in each register, 0 or a rank in p+1 .. 32; the
\* arrays tried have one value in the first n registers and one in the rest.
\* The items that led there are outside Items, so added stays empty.
RegVals(p) == {0, p + 1, p + 2, HashBits}

RegArrays(p) ==
    {[k \in 1..Pow2(p) |-> IF k <= n THEN a ELSE b] :
        n \in 0..Pow2(p), a \in RegVals(p), b \in RegVals(p)}

InitCount ==
    /\ prog = "task-02"
    /\ hashfn = <<0, 0>>
    /\ bloom = None
    /\ \E p \in 0..MaxP : \E registers \in RegArrays(p) :
          hll = [HyperLogLog_init(PyInt(p)).obj EXCEPT !.registers = registers]
    /\ added = {}
    /\ ret = [op |-> "start", arg |-> None, val |-> None, raised |-> NoRaise]

NextCount == HllCount

SpecCount == InitCount /\ [][NextCount]_vars

Next ==
    \/ NewBloomFilter
    \/ BloomAdd
    \/ BloomContains
    \/ CheckPasswords
    \/ NewHyperLogLog
    \/ HllAdd
    \/ HllCount

Spec == Init /\ [][Next]_vars

TypeOK ==
    /\ prog \in {"task-01", "task-02"}
    /\ bloom # None => (prog = "task-01" /\ Len(bloom.bit_array) = bloom.size)
    /\ hll # None => (prog = "task-02" /\ Len(hll.registers) = hll.m)

(* ------------------------------ properties ---------------------------- *)
IsBloom(b) == b.t = "BloomFilter"
IsHll(h)   == h.t = "HyperLogLog"

QueryOps == {"BloomFilter.contains", "check_password_uniqueness", "HyperLogLog.count"}

\* C1: no false negatives.  In every state of a filter, contains(x) is true
\* for every valid item x that was added, whatever was added after it, and a
\* contains call made on such an item has returned true.
C1_NoFalseNegatives ==
    IsBloom(bloom) =>
        /\ \A x \in added : BloomFilter_contains(bloom, x) = [val |-> PyBool(TRUE), raised |-> NoRaise]
        /\ (ret.op = "BloomFilter.contains" /\ ret.arg \in added) => ret.val = PyBool(TRUE)

\* contains(x) answered true for an added x, after another item was added
\* too, in a filter that still has a zero bit
C1_Witness ==
    /\ IsBloom(bloom)
    /\ ret.op = "BloomFilter.contains"
    /\ ret.arg \in added
    /\ ret.val = PyBool(TRUE)
    /\ Cardinality(added) >= 2
    /\ \E k \in 1..bloom.size : bloom.bit_array[k] = 0

\* one step keeps every set bit set and lowers no register
MonotoneStep ==
    /\ IsBloom(bloom) =>
          /\ IsBloom(bloom')
          /\ Len(bloom'.bit_array) = Len(bloom.bit_array)
          /\ \A k \in 1..Len(bloom.bit_array) :
                bloom.bit_array[k] = 1 => bloom'.bit_array[k] = 1
    /\ IsHll(hll) =>
          /\ IsHll(hll')
          /\ Len(hll'.registers) = Len(hll.registers)
          /\ \A k \in 1..Len(hll.registers) : hll'.registers[k] >= hll.registers[k]

\* C2: monotonicity.  No step of any operation clears a bit of the filter or
\* lowers a register of the estimator.
C2_Monotonic == [][MonotoneStep]_vars

\* an add whose rank is below the value its register already holds
C2_Witness ==
    /\ IsHll(hll)
    /\ ret.op = "HyperLogLog.add"
    /\ LET x == mmh3_hash(Encode(Str(ret.arg)), SEED_HLL)
       IN rho(WordShr(x, hll.p)) < hll.registers[RegisterIndex(hll, x) + 1]

\* C3: HyperLogLog.add of an invalid item (None, "", a non-string) leaves
\* every register as it was.
C3_HllAddIgnoresInvalid ==
    [][(IsHll(hll) /\ ret'.op = "HyperLogLog.add" /\ InvalidItem(ret'.arg))
          => hll'.registers = hll.registers]_vars

\* C4: BloomFilter with an invalid item: add leaves the instance unchanged
\* and raises nothing; contains returns False whatever the bits are.
C4_BloomInvalidInput ==
    [][/\ (IsBloom(bloom) /\ ret'.op = "BloomFilter.add" /\ InvalidItem(ret'.arg))
            => (bloom' = bloom /\ ret'.raised = NoRaise)
       /\ (IsBloom(bloom) /\ ret'.op = "BloomFilter.contains" /\ InvalidItem(ret'.arg))
            => (ret'.val = PyBool(FALSE) /\ ret'.raised = NoRaise)]_vars

\* contains of an invalid item answered False although all M bits are 1
C4_Witness ==
    /\ IsBloom(bloom)
    /\ ret.op = "BloomFilter.contains"
    /\ InvalidItem(ret.arg)
    /\ ret.val = PyBool(FALSE)
    /\ \A k \in 1..bloom.size : bloom.bit_array[k] = 1

\* the status the specification assigns to one entry
EntryStatus(bf, e) ==
    IF InvalidItem(e) THEN STATUS_INVALID
    ELSE IF BloomFilter_contains(bf, e).val.b THEN STATUS_USED
    ELSE STATUS_UNIQUE

\* C5: check_password_uniqueness gives every entry of its input the status
\* of that entry: invalid, already used (contains is true) or unique.
C5_ClassifyPerEntry ==
    (IsBloom(bloom) /\ ret.op = "check_password_uniqueness" /\ ret.raised = NoRaise) =>
        \A n \in 1..Len(ret.arg.l) :
            /\ DictHas(ret.val.d, Str(ret.arg.l[n]))
            /\ DictGet(ret.val.d, Str(ret.arg.l[n])) = EntryStatus(bloom, ret.arg.l[n])

\* C6: HyperLogLog(p) raises exactly when p is not a positive integer, and
\* then no instance exists.
C6_HllCtorRejectsNonPositive ==
    ret.op = "HyperLogLog" =>
        /\ (ret.raised # NoRaise) <=> ~(IsInt(ret.arg) /\ ret.arg.n > 0)
        /\ (ret.raised # NoRaise) => hll = None

\* the state part of C7, about the constructor call just made
BloomCtorResult ==
    ret.op = "BloomFilter" =>
        LET size == ret.arg.l[1]
            num_hashes == ret.arg.l[2]
            bad == ~(IsInt(size) /\ size.n > 0 /\ IsInt(num_hashes) /\ num_hashes.n > 0)
        IN /\ (ret.raised # NoRaise) <=> bad
           /\ bad => (ret.raised = "ValueError" /\ bloom = None)
           /\ ~bad => /\ IsBloom(bloom)
                      /\ bloom.size = size.n
                      /\ bloom.num_hashes = num_hashes.n
                      /\ Len(bloom.bit_array) = size.n
                      /\ \A k \in 1..size.n : bloom.bit_array[k] = 0

\* the step part of C7
BloomParamsFixed ==
    IsBloom(bloom) =>
        /\ IsBloom(bloom')
        /\ bloom'.size = bloom.size
        /\ bloom'.num_hashes = bloom.num_hashes
        /\ Len(bloom'.bit_array) = bloom.size

\* C7: BloomFilter(M, K) raises exactly when M or K is not a positive
\* integer and then leaves no instance; otherwise the instance has size M,
\* num_hashes K and M zero bits, and M and K never change afterwards.
C7_BloomCtor == [](BloomCtorResult) /\ [][BloomParamsFixed]_vars

\* a successful construction with the largest size tried
C7_Witness ==
    /\ ret.op = "BloomFilter"
    /\ ret.raised = NoRaise
    /\ IsBloom(bloom)
    /\ bloom.size = MaxSize

\* C8: a fresh HyperLogLog has 2^p registers, all 0, and count() on it takes
\* the linear-counting return with V = m and yields 0.
C8_EmptyEstimator ==
    /\ (ret.op = "HyperLogLog" /\ ret.raised = NoRaise) =>
          /\ IsHll(hll)
          /\ Len(hll.registers) = Pow2(ret.arg.n)
          /\ \A k \in 1..Len(hll.registers) : hll.registers[k] = 0
    /\ (IsHll(hll) /\ added = {} /\ ret.op = "HyperLogLog.count") =>
          /\ ret.raised = NoRaise
          /\ ret.branch = "linear"
          /\ ret.V = hll.m
          /\ FloatIsZero(ret.val)

\* count() called on an estimator of at least two registers before any add
C8_Witness ==
    /\ IsHll(hll)
    /\ added = {}
    /\ ret.op = "HyperLogLog.count"
    /\ hll.m >= 2

\* C9: contains and count never raise: contains reads only positions
\* 0..M-1, count divides by Z > 0 and takes the logarithm only when V > 0.
C9_QueriesNeverRaise ==
    /\ ret.op \in QueryOps => ret.raised = NoRaise
    /\ IsBloom(bloom) =>
          \A item \in Items : \A i \in 0..(bloom.num_hashes - 1) :
              InvalidItem(item) \/ BloomIndex(bloom, Encode(item.s), i) \in 0..(bloom.size - 1)
    /\ IsHll(hll) => SumZ(hll.registers, Len(hll.registers)) # <<>>
    /\ (ret.op = "HyperLogLog.count" /\ ret.branch = "linear") => ret.V > 0

\* count() returned although the raw estimate was under the threshold and no
\* register was zero
C9_Witness ==
    /\ IsHll(hll)
    /\ ret.op = "HyperLogLog.count"
    /\ ret.V = 0
    /\ BelowSmallRange(hll, SumZ(hll.registers, Len(hll.registers)))

\* one step of C10
ReadOnlyStep ==
    /\ ret'.op \in {"BloomFilter.contains", "check_password_uniqueness"} => bloom' = bloom
    /\ ret'.op = "HyperLogLog.count" => hll' = hll
    /\ (IsBloom(bloom) /\ bloom' # bloom) => ret'.op = "BloomFilter.add"
    /\ (IsHll(hll) /\ hll' # hll) => ret'.op = "HyperLogLog.add"
    /\ (ret.op \in QueryOps /\ ret'.op = ret.op /\ ret'.arg = ret.arg) => ret'.val = ret.val

\* C10: queries are read-only.  contains, check_password_uniqueness and
\* count change no bit and no register; only add changes an instance; a
\* query repeated with no add in between returns the same result.
C10_QueriesReadOnly == [][ReadOnlyStep]_vars

\* check_password_uniqueness has run on a non-empty list against a filter
\* with items added
C10_Witness ==
    /\ IsBloom(bloom)
    /\ ret.op = "check_password_uniqueness"
    /\ Len(ret.arg.l) >= 1
    /\ added # {}


\* the hash and its two parts for an item given to HyperLogLog.add
HllHash(item)  == mmh3_hash(Encode(Str(item)), SEED_HLL)
HllW(h, item)  == WordShr(HllHash(item), h.p)

\* the rank of the specification: the width of w is HashBits - p
WidthRho(p, w) ==
    IF w = <<0, 0>> THEN (HashBits - p) + 1 ELSE (HashBits - p) - BitLength(w) + 1

\* C12: the rank uses the width of the non-index part: for a positive
\* precision p and the w of every add made, rho(w) = (32 - p) + 1 if w = 0
\* and (32 - p) - bitLength(w) + 1 otherwise, so that rho(w) lies in
\* 1 .. (32 - p) + 1.
C12_RhoUsesWidth ==
    (IsHll(hll) /\ hll.p >= 1 /\ ret.op = "HyperLogLog.add") =>
        LET w == HllW(hll, ret.arg) IN
        /\ rho(w) = WidthRho(hll.p, w)
        /\ rho(w) \in 1..((HashBits - hll.p) + 1)

\* one add step of the estimator, stated on the hash x of the item added:
\* j = x mod 2^p is an index, register j becomes the maximum, the rest stay
AddOneRegister ==
    (IsHll(hll) /\ ret'.op = "HyperLogLog.add") =>
        LET x == HllHash(ret'.arg)
            j == WordMod(x, Pow2(hll.p))
        IN /\ j \in 0..(hll.m - 1)
           /\ Len(hll'.registers) = hll.m
           /\ hll'.registers[j + 1] = Max(hll.registers[j + 1], rho(HllW(hll, ret'.arg)))
           /\ \A k \in 1..hll.m : k # j + 1 => hll'.registers[k] = hll.registers[k]

\* C13: HyperLogLog.add updates exactly one register: registers[j] becomes
\* max(old registers[j], rho(w)) for j = x mod 2^p, w = x div 2^p, every
\* other register is unchanged, and j is an index in 0 .. m-1.
C13_AddOneRegister == [][AddOneRegister]_vars

\* an add that raised its register while another register was already set
C13_Witness ==
    /\ IsHll(hll)
    /\ ret.op = "HyperLogLog.add"
    /\ LET j == RegisterIndex(hll, HllHash(ret.arg)) IN
       /\ hll.registers[j + 1] = rho(HllW(hll, ret.arg))
       /\ \E k \in 1..hll.m : k # j + 1 /\ hll.registers[k] > 0


\* E <= 2.5 * m for E = alpha * m^2 / Z, as  2 alpha m <= 5 Z  with both
\* sides multiplied by 2^HashBits and by the denominator of alpha
RawAtMostThreshold(h) ==
    BigLeq(BigMul(BigMul(BigPow2(HashBits), 2 * h.alpha[1]), h.m),
           BigMul(BigMul(SumZ(h.registers, h.m), h.alpha[2]), 5))

ZeroRegisters(h) == Cardinality({k \in 1..h.m : h.registers[k] = 0})

\* C14: count() returns m * ln(m / V) if and only if E <= 2.5 * m and V > 0,
\* and otherwise returns E = alpha * m^2 / Z unmodified.
C14_CountRule ==
    (IsHll(hll) /\ ret.op = "HyperLogLog.count") =>
        LET V == ZeroRegisters(hll)
            E == [f |-> "ratio",
                  num |-> BigMul(BigMul(BigMul(BigPow2(HashBits), hll.alpha[1]), hll.m), hll.m),
                  den |-> BigMul(SumZ(hll.registers, hll.m), hll.alpha[2])]
        IN /\ ret.raised = NoRaise
           /\ (ret.branch = "linear") <=> (RawAtMostThreshold(hll) /\ V > 0)
           /\ (ret.branch = "linear") =>
                 ret.val = [f |-> "mlog", m |-> hll.m, n |-> hll.m, d |-> V]
           /\ (ret.branch # "linear") => (ret.branch = "raw" /\ ret.val = E)

\* count() returned the raw estimate although some register is still zero
C14_Witness ==
    /\ IsHll(hll)
    /\ ret.op = "HyperLogLog.count"
    /\ ret.branch = "raw"
    /\ ZeroRegisters(hll) > 0


\* the indices hash(item, i) mod M, i in 0 .. K-1, of a valid item
ItemIndices(bf, item) ==
    {WordMod(mmh3_hash(Encode(item.s), Word(i)), bf.size) : i \in 0..(bf.num_hashes - 1)}

\* one add step of the filter with a valid item
AddSetsItsBits ==
    (IsBloom(bloom) /\ ret'.op = "BloomFilter.add" /\ ~InvalidItem(ret'.arg)) =>
        /\ ItemIndices(bloom, ret'.arg) \subseteq 0..(bloom.size - 1)
        /\ Len(bloom'.bit_array) = bloom.size
        /\ \A k \in 1..bloom.size :
              bloom'.bit_array[k] =
                  IF (k - 1) \in ItemIndices(bloom, ret'.arg) THEN 1 ELSE bloom.bit_array[k]

\* C15: BloomFilter.add of a valid item sets to 1 exactly the bits at
\* hash(item, i) mod M for i in 0 .. K-1, leaves every other bit as it was,
\* and all these indices lie in 0 .. M-1.
C15_AddSetsItsBits == [][AddSetsItsBits]_vars

\* an add that set two different bits and left a zero bit
C15_Witness ==
    /\ IsBloom(bloom)
    /\ ret.op = "BloomFilter.add"
    /\ ~InvalidItem(ret.arg)
    /\ Cardinality(ItemIndices(bloom, ret.arg)) >= 2
    /\ \A j \in ItemIndices(bloom, ret.arg) : bloom.bit_array[j + 1] = 1
    /\ \E k \in 1..bloom.size : bloom.bit_array[k] = 0

AllBitsZero(bf) == \A k \in 1..bf.size : bf.bit_array[k] = 0

\* C16: for a valid item contains returns True if and only if all K bits at
\* hash(item, i) mod M are 1; so a filter with no bit set answers False for
\* every item, and an item answered False was never added.
C16_ContainsIffAllBits ==
    IsBloom(bloom) =>
        /\ (ret.op = "BloomFilter.contains" /\ ~InvalidItem(ret.arg)) =>
              /\ ret.raised = NoRaise
              /\ ret.val.b <=> (\A j \in ItemIndices(bloom, ret.arg) : bloom.bit_array[j + 1] = 1)
              /\ (~ret.val.b) => ret.arg \notin added
        /\ AllBitsZero(bloom) =>
              \A item \in Items : BloomFilter_contains(bloom, item).val = PyBool(FALSE)

\* contains answered False for a valid item one of whose bits is set
C16_Witness ==
    /\ IsBloom(bloom)
    /\ ret.op = "BloomFilter.contains"
    /\ ~InvalidItem(ret.arg)
    /\ ret.val = PyBool(FALSE)
    /\ \E j \in ItemIndices(bloom, ret.arg) : bloom.bit_array[j + 1] = 1


\* the ranks of the items added so far whose hash maps to register k - 1
RanksAt(h, k) ==
    {rho(HllW(h, item)) : item \in {i \in added : RegisterIndex(h, HllHash(i)) = k - 1}}

SetMax(S) == IF S = {} THEN 0 ELSE CHOOSE x \in S : \A y \in S : y <= x

NonZeroRegisters(h) == Cardinality({k \in 1..h.m : h.registers[k] # 0})

\* the state part of C17
RegistersHoldMaxRank ==
    IsHll(hll) =>
        \A k \in 1..hll.m :
            /\ hll.registers[k] = SetMax(RanksAt(hll, k))
            /\ (hll.registers[k] = 0) <=> (RanksAt(hll, k) = {})

\* the step part of C17
NonZeroNeverFewer ==
    (IsHll(hll) /\ IsHll(hll')) => NonZeroRegisters(hll') >= NonZeroRegisters(hll)

\* C17: every register holds the largest rank among the items added so far
\* that map to its index, and 0 exactly when no added item maps there; the
\* number of non-zero registers never decreases.
C17_RegistersHoldMaxRank == [](RegistersHoldMaxRank) /\ [][NonZeroNeverFewer]_vars

\* a register holds the larger of two different ranks of added items while
\* another register, to which nothing was mapped, is still 0
C17_Witness ==
    /\ IsHll(hll)
    /\ ret.op = "HyperLogLog.add"
    /\ \E k \in 1..hll.m : Cardinality(RanksAt(hll, k)) >= 2
    /\ \E k \in 1..hll.m : hll.registers[k] = 0

\* the bits set by a set of valid items
BitsOf(bf, S) ==
    [k \in 1..bf.size |-> IF \E x \in S : (k - 1) \in ItemIndices(bf, x) THEN 1 ELSE 0]

\* the registers determined by a set of items alone
RegistersOf(h, S) ==
    [k \in 1..h.m |->
        SetMax({rho(HllW(h, x)) : x \in {i \in S : RegisterIndex(h, HllHash(i)) = k - 1}})]

\* add(a) then add(b) gives the same instance as add(b) then add(a), and
\* add(a) twice the same as add(a) once, for both structures
AddCommutesAndIdempotent ==
    /\ IsBloom(bloom) =>
          \A a \in Items : \A b \in Items :
             /\ BloomFilter_add(BloomFilter_add(bloom, a), b)
                   = BloomFilter_add(BloomFilter_add(bloom, b), a)
             /\ BloomFilter_add(BloomFilter_add(bloom, a), a) = BloomFilter_add(bloom, a)
    /\ IsHll(hll) =>
          \A a \in Items : \A b \in Items :
             /\ HyperLogLog_add(HyperLogLog_add(hll, a), b)
                   = HyperLogLog_add(HyperLogLog_add(hll, b), a)
             /\ HyperLogLog_add(HyperLogLog_add(hll, a), a) = HyperLogLog_add(hll, a)

\* C18: the state of either structure depends only on the set of valid items
\* added: the bit array and the register array are the ones determined by
\* that set, add(a) then add(b) gives the same array as add(b) then add(a),
\* and add(a) twice the same array as add(a) once.
C18_OrderAndMultiplicity ==
    /\ AddCommutesAndIdempotent
    /\ IsBloom(bloom) => bloom.bit_array = BitsOf(bloom, added)
    /\ (IsHll(hll) /\ hll.p >= 1) =>
          hll.registers = RegistersOf(hll, {i \in added : ~InvalidItem(i)})

====
